---- MODULE Spec2Model ----
(***************************************************************************)
(* Game-room state machine of the exquisite-corpse backend.                *)
(*                                                                         *)
(* The model follows the iteration of game-handlers.js that carries the    *)
(* two-canvas data model (canvasAssignments, activeCanvasStates,           *)
(* segmentHistory) and the reconnection supervisor (reconnectGame,         *)
(* reconnectAttempts, grace timers): src/unnamed/part_002, wired to the    *)
(* transport by src/server.js.                                             *)
(*                                                                         *)
(* The room store is the MongoDB collection "gameRooms": one document per  *)
(* room, read with findOne and written with updateOne({$set: gameRoom}),   *)
(* which overwrites every field of the stored document with the handler's  *)
(* in-memory copy.                                                         *)
(***************************************************************************)
EXTENDS Integers, Sequences, FiniteSets, TLC

\* ------------------------------------------------------------------ bounds
MaxConns == 3      \* transport connections opened during a run
MaxRooms == 1      \* rooms inserted into the store during a run
NumImages == 2     \* distinct canvas payloads a client may submit
MaxPlayConns == 2  \* connections opened in a run of SpecPlay
MaxStormConns == 7 \* connections opened in a run of SpecRemoval
MaxRaceRooms == 2  \* rooms inserted in a run of SpecCreateRace
MaxRaceCodes == 2  \* game codes drawn in a run of SpecCreateRace

\* ------------------------------------------------------- program constants
TOTAL_SEGMENTS == 4
MAX_PLAYERS == 2
MAX_RECONNECT_ATTEMPTS == 5

ConnIds == 1..MaxStormConns
RoomIds == 1..MaxRooms
Codes == 1..MaxRooms           \* game codes generateUniqueGameCode may draw
Images == 1..NumImages         \* data.canvasData (with its data.redLineY)
Blank == 0                     \* createBlankCanvas(CANVAS_WIDTH, CANVAS_HEIGHT)
NoCanvas == -1                 \* undefined canvasData in an outgoing message
NoRoom == 0                    \* ws.gameRoomId = null
NoPlayer == 0

VARIABLES
    store,      \* gameRooms collection: _id -> document
    conns,      \* wss.clients and closed sockets: ws.id -> [state, gameRoomId, playerId]
    timers,     \* pending setTimeout callbacks of handleWebSocketClose: <<roomId, playerId>>
    nextConn,   \* number of connections opened so far
    nextRoom,   \* number of documents inserted so far
    logging,    \* whether the run records lastOp and lastSent
    lastOp,     \* the message or event handled by the last step
    lastSent,   \* the messages sent (ws.send / client.send) by the last step
    pc,         \* per connection: position of an in-flight submitSegment handler
    local       \* per connection: the handler's in-memory gameRoom

vars == <<store, conns, timers, nextConn, nextRoom, logging, lastOp, lastSent, pc, local>>

\* ------------------------------------------------------------ JS helpers
SeqToSet(s) == {s[i] : i \in 1..Len(s)}

\* Array.prototype.includes
Includes(s, x) == x \in SeqToSet(s)

EmptyMap == [x \in {} |-> 0]

\* obj[key] = value on a plain object
MapSet(m, k, v) == [x \in (DOMAIN m) \cup {k} |-> IF x = k THEN v ELSE m[x]]

\* delete obj[key]
MapDel(m, k) == [x \in (DOMAIN m) \ {k} |-> m[x]]

\* playerObjects.find((p) => p.id === id): index of the first match, 0 if none
FindPlayer(objs, id) ==
    IF \E i \in 1..Len(objs) : objs[i].id = id
    THEN CHOOSE i \in 1..Len(objs) :
            /\ objs[i].id = id
            /\ \A j \in 1..(i - 1) : objs[j].id # id
    ELSE 0

\* collection.findOne({ gameCode }): the _id of the matching document, NoRoom if none
FindByCode(code) ==
    IF \E r \in DOMAIN store : store[r].gameCode = code
    THEN CHOOSE r \in DOMAIN store :
            /\ store[r].gameCode = code
            /\ \A q \in DOMAIN store : store[q].gameCode = code => r <= q
    ELSE NoRoom

\* the open sockets of wss.clients bound to room r
OpenIn(cs, r) == {c \in ConnIds : cs[c].state = "open" /\ cs[c].gameRoomId = r}

\* activeCanvasStates[canvasAssignments[playerId]]
CanvasFor(room, p) ==
    IF p \in DOMAIN room.canvasAssignments
    THEN room.activeCanvasStates[room.canvasAssignments[p]]
    ELSE NoCanvas

Msg(to, type, room, canDraw, waiting, canvas) ==
    [to |-> to, type |-> type, status |-> room.status,
     currentSegmentIndex |-> room.currentSegmentIndex,
     playerCount |-> room.playerCount,
     canDraw |-> canDraw, isWaitingForOthers |-> waiting, canvasData |-> canvas]

\* a message that carries no view of the room
Note(to, type) ==
    [to |-> to, type |-> type, status |-> "none", currentSegmentIndex |-> 0,
     playerCount |-> 0, canDraw |-> FALSE, isWaitingForOthers |-> FALSE,
     canvasData |-> NoCanvas]

Op(type, c, r, p, seg, data) ==
    [type |-> type, conn |-> c, room |-> r, player |-> p, seg |-> seg, data |-> data]

\* lastOp and lastSent observe a step only in a run that records them
Observed(new, old) == IF logging THEN new ELSE old

PlayerObject(id) == [id |-> id, isDisconnected |-> FALSE, reconnectAttempts |-> 0]

\* ------------------------------------------------------------------ Init
InitWith(log) ==
    /\ logging = log
    /\ store = EmptyMap
    /\ conns = [c \in ConnIds |-> [state |-> "unborn", gameRoomId |-> NoRoom, playerId |-> NoPlayer]]
    /\ timers = {}
    /\ nextConn = 0
    /\ nextRoom = 0
    /\ lastOp = Op("init", 0, NoRoom, NoPlayer, 0, Blank)
    /\ lastSent = {}
    /\ pc = [c \in ConnIds |-> "idle"]
    /\ local = [c \in ConnIds |-> EmptyMap]

Init == InitWith(FALSE)

InitLogged == InitWith(TRUE)

\* ------------------------------------------------------------ connection
\* wss.on('connection'): ws.id is a fresh random id, ws.playerId = ws.id
Connect(limit) ==
    /\ nextConn < limit
    /\ nextConn' = nextConn + 1
    /\ conns' = [conns EXCEPT ![nextConn + 1] =
                    [state |-> "open", gameRoomId |-> NoRoom, playerId |-> nextConn + 1]]
    /\ lastOp' = Observed(Op("connection", nextConn + 1, NoRoom, NoPlayer, 0, Blank), lastOp)
    /\ lastSent' = Observed({}, lastSent)
    /\ UNCHANGED <<store, timers, nextRoom, pc, local, logging>>

\* ------------------------------------------------------------ createGame
\* a new room that counts no player
NewGameRoomEmpty(code, id) ==
    [gameCode |-> code,
     players |-> <<>>,
     playerObjects |-> <<>>,
     playerCount |-> 0,
     status |-> "waiting",
     currentSegmentIndex |-> 0,
     submittedPlayers |-> <<>>,
     activeCanvasStates |-> [i \in {0, 1} |-> Blank],
     canvasAssignments |-> EmptyMap,
     segmentHistory |-> EmptyMap,
     finalArtworks |-> <<>>,
     disconnectionTimers |-> {}]

NewGameRoom(code, id) ==
    [gameCode |-> code,
     players |-> <<id>>,
     playerObjects |-> <<PlayerObject(id)>>,
     playerCount |-> 1,
     status |-> "waiting",
     currentSegmentIndex |-> 0,
     submittedPlayers |-> <<>>,
     activeCanvasStates |-> [i \in {0, 1} |-> Blank],
     canvasAssignments |-> MapSet(EmptyMap, id, 0),
     segmentHistory |-> EmptyMap,
     finalArtworks |-> <<>>,
     disconnectionTimers |-> {}]

\* the loop draws codes until findOne({gameCode}) finds none
CreateGame(c, code) ==
    /\ conns[c].state = "open"
    /\ pc[c] = "idle"
    /\ nextRoom < MaxRooms
    /\ FindByCode(code) = NoRoom
    /\ nextRoom' = nextRoom + 1
    /\ store' = MapSet(store, nextRoom + 1, NewGameRoom(code, c))
    /\ conns' = [conns EXCEPT ![c] = [@ EXCEPT !.gameRoomId = nextRoom + 1, !.playerId = c]]
    /\ lastOp' = Observed(Op("createGame", c, nextRoom + 1, c, 0, Blank), lastOp)
    /\ lastSent' = Observed({[Msg(c, "gameCreated", store'[nextRoom + 1], FALSE, TRUE, Blank)
                                    EXCEPT !.status = "none"]}, lastSent)
    /\ UNCHANGED <<timers, nextConn, pc, local, logging>>

\* --------------------------------------------------------- reconnectGame
\* isDisconnected = false, reconnectAttempts = 0 and delete disconnectionTimers[id]
\* on the in-memory gameRoom, as both reconnect paths do before updateOne
MarkReconnected(room, i) ==
    [room EXCEPT
        !.playerObjects[i].isDisconnected = FALSE,
        !.playerObjects[i].reconnectAttempts = 0,
        !.disconnectionTimers = @ \ {room.playerObjects[i].id}]

\* clearTimeout(gameRoom.disconnectionTimers[playerId]): the handle was read back
\* from the store, so whether it still denotes the live timer is not decided by
\* the source; both outcomes are kept.
ClearTimeout(room, r, p, cancelled) ==
    IF p \in room.disconnectionTimers /\ cancelled
    THEN timers \ {<<r, p>>}
    ELSE timers

\* the 'reconnected' reply and the 'playerReconnected' notices
ReconnectMessages(cs, c, r, room, p) ==
    {Msg(c, "reconnected", room,
         ~Includes(room.submittedPlayers, p), Includes(room.submittedPlayers, p),
         CanvasFor(room, p))}
    \cup {Msg(o, "playerReconnected", room, FALSE, FALSE, NoCanvas) :
            o \in {x \in OpenIn(cs, r) : cs[x].playerId # p}}

ReconnectGame(c, code, p, cancelled) ==
    /\ conns[c].state = "open"
    /\ pc[c] = "idle"
    /\ lastOp' = Observed(Op("reconnectGame", c, FindByCode(code), p, 0, Blank), lastOp)
    /\ LET r == FindByCode(code)
           i == IF r = NoRoom THEN 0 ELSE FindPlayer(store[r].playerObjects, p)
       IN IF r = NoRoom
             \/ i = 0
             \/ ~store[r].playerObjects[i].isDisconnected
             \/ store[r].playerObjects[i].reconnectAttempts >= MAX_RECONNECT_ATTEMPTS
          THEN /\ lastSent' = Observed({Note(c, "reconnectFailed")}, lastSent)
               /\ UNCHANGED <<store, conns, timers>>
          ELSE LET room == MarkReconnected(store[r], i)
               IN /\ conns' = [conns EXCEPT ![c] = [@ EXCEPT !.gameRoomId = r, !.playerId = p]]
                  /\ timers' = ClearTimeout(store[r], r, p, cancelled)
                  /\ store' = [store EXCEPT ![r] = room]
                  /\ lastSent' = Observed(ReconnectMessages(conns', c, r, room, p), lastSent)
    /\ UNCHANGED <<nextConn, nextRoom, pc, local, logging>>

\* -------------------------------------------------------------- joinGame
\* players.push / playerObjects.push for a player not yet in players, then the
\* waiting -> playing transition when playerCount === MAX_PLAYERS
\* joinGame with the two canvases handed out the other way round
JoinRoomSwapped(room, p) ==
    LET added == IF Includes(room.players, p)
                 THEN room
                 ELSE [room EXCEPT
                        !.players = Append(@, p),
                        !.playerObjects = Append(@, PlayerObject(p)),
                        !.playerCount = Len(room.players) + 1]
    IN IF added.playerCount = MAX_PLAYERS /\ added.status = "waiting"
       THEN [added EXCEPT
                !.status = "playing",
                !.canvasAssignments =
                    MapSet(MapSet(EmptyMap, added.players[1], 1), added.players[2], 0)]
       ELSE added

JoinRoom(room, p) ==
    LET added == IF Includes(room.players, p)
                 THEN room
                 ELSE [room EXCEPT
                        !.players = Append(@, p),
                        !.playerObjects = Append(@, PlayerObject(p)),
                        !.playerCount = Len(room.players) + 1]
    IN IF added.playerCount = MAX_PLAYERS /\ added.status = "waiting"
       THEN [added EXCEPT
                !.status = "playing",
                !.canvasAssignments =
                    MapSet(MapSet(EmptyMap, added.players[1], 0), added.players[2], 1)]
       ELSE added

\* the 'gameJoined' broadcast to every open socket bound to the room
JoinMessages(cs, r, room) ==
    {Msg(o, "gameJoined", room,
         ~Includes(room.submittedPlayers, cs[o].playerId),
         Includes(room.submittedPlayers, cs[o].playerId),
         CanvasFor(room, cs[o].playerId)) : o \in OpenIn(cs, r)}

JoinGame(c, code, cancelled) ==
    /\ conns[c].state = "open"
    /\ pc[c] = "idle"
    /\ lastOp' = Observed(Op("joinGame", c, FindByCode(code), c, 0, Blank), lastOp)
    /\ LET r == FindByCode(code)
           i == IF r = NoRoom THEN 0 ELSE FindPlayer(store[r].playerObjects, c)
       IN IF r = NoRoom \/ store[r].status = "completed"
          THEN /\ lastSent' = Observed({}, lastSent)
               /\ UNCHANGED <<store, conns, timers>>
          ELSE IF i # 0 /\ store[r].playerObjects[i].isDisconnected
          THEN LET room == MarkReconnected(store[r], i)
               IN /\ conns' = [conns EXCEPT ![c] = [@ EXCEPT !.gameRoomId = r, !.playerId = c]]
                  /\ timers' = ClearTimeout(store[r], r, c, cancelled)
                  /\ store' = [store EXCEPT ![r] = room]
                  /\ lastSent' = Observed(ReconnectMessages(conns', c, r, room, c), lastSent)
          ELSE LET room == JoinRoom(store[r], c)
               IN /\ conns' = [conns EXCEPT ![c] = [@ EXCEPT !.gameRoomId = r, !.playerId = c]]
                  /\ store' = [store EXCEPT ![r] = room]
                  /\ lastSent' = Observed(JoinMessages(conns', r, room), lastSent)
                  /\ UNCHANGED timers
    /\ UNCHANGED <<nextConn, nextRoom, pc, local, logging>>

\* --------------------------------------------------------- submitSegment
\* the in-memory update of one submission: submittedPlayers.push unless included,
\* activeCanvasStates[canvasIndex] = data.canvasData (an undefined canvasIndex sets
\* no array element), segmentHistory[currentSegmentIndex][playerId] = the submission
RecordSubmission(room, p, data) ==
    LET k == room.currentSegmentIndex
        seg == IF k \in DOMAIN room.segmentHistory THEN room.segmentHistory[k] ELSE EmptyMap
    IN [room EXCEPT
            !.submittedPlayers = IF Includes(@, p) THEN @ ELSE Append(@, p),
            !.activeCanvasStates =
                IF p \in DOMAIN room.canvasAssignments
                THEN [@ EXCEPT ![room.canvasAssignments[p]] = data]
                ELSE @,
            !.segmentHistory = MapSet(@, k, MapSet(seg, p, data))]

\* the advance with the canvas assignments left as they were
AdvanceSegmentNoSwap(room) ==
    IF room.currentSegmentIndex + 1 >= TOTAL_SEGMENTS
    THEN [room EXCEPT
            !.status = "completed",
            !.finalArtworks = <<room.activeCanvasStates[0], room.activeCanvasStates[1]>>]
    ELSE [room EXCEPT
            !.currentSegmentIndex = @ + 1,
            !.submittedPlayers = <<>>]

\* the advance that puts every player on canvas 1
AdvanceSegmentAllToOne(room) ==
    IF room.currentSegmentIndex + 1 >= TOTAL_SEGMENTS
    THEN [room EXCEPT
            !.status = "completed",
            !.finalArtworks = <<room.activeCanvasStates[0], room.activeCanvasStates[1]>>]
    ELSE [room EXCEPT
            !.currentSegmentIndex = @ + 1,
            !.submittedPlayers = <<>>,
            !.canvasAssignments = [q \in DOMAIN @ |-> 1]]

\* the branch taken when submittedPlayers.length === MAX_PLAYERS
AdvanceSegment(room) ==
    IF room.currentSegmentIndex + 1 >= TOTAL_SEGMENTS
    THEN [room EXCEPT
            !.status = "completed",
            !.finalArtworks = <<room.activeCanvasStates[0], room.activeCanvasStates[1]>>]
    ELSE [room EXCEPT
            !.currentSegmentIndex = @ + 1,
            !.submittedPlayers = <<>>,
            !.canvasAssignments =
                [q \in DOMAIN @ |-> IF @[q] = 0 THEN 1 ELSE 0]]

\* the comparison with one player more than a room has seats
AllSubmittedOneMore(room) == Len(room.submittedPlayers) = MAX_PLAYERS + 1

AllSubmitted(room) == Len(room.submittedPlayers) = MAX_PLAYERS

\* the 'gameUpdate' broadcast after an advance
UpdateMessages(cs, r, room) ==
    {Msg(o, "gameUpdate", room,
         room.status # "completed" /\ ~Includes(room.submittedPlayers, cs[o].playerId),
         room.status # "completed" /\ Includes(room.submittedPlayers, cs[o].playerId),
         IF room.status = "completed" THEN NoCanvas ELSE CanvasFor(room, cs[o].playerId))
        : o \in OpenIn(cs, r)}

\* the whole handler, run without another handler of the room in between
SubmitSegment(c, seg, data) ==
    /\ conns[c].state = "open"
    /\ pc[c] = "idle"
    /\ lastOp' = Observed(Op("submitSegment", c, conns[c].gameRoomId, conns[c].playerId, seg, data), lastOp)
    /\ LET r == conns[c].gameRoomId
       IN IF r \notin DOMAIN store \/ store[r].status # "playing"
          THEN /\ lastSent' = Observed({}, lastSent)
               /\ UNCHANGED store
          ELSE LET recorded == RecordSubmission(store[r], conns[c].playerId, data)
                   room == IF AllSubmitted(recorded) THEN AdvanceSegment(recorded) ELSE recorded
               IN /\ store' = [store EXCEPT ![r] = room]
                  /\ lastSent' = Observed(IF AllSubmitted(recorded)
                                          THEN UpdateMessages(conns, r, room)
                                          ELSE {}, lastSent)
    /\ UNCHANGED <<conns, timers, nextConn, nextRoom, pc, local, logging>>

\* -------------------------------------------------------------- playAgain
ResetRoom(room) ==
    [room EXCEPT
        !.status = "waiting",
        !.currentSegmentIndex = 0,
        !.submittedPlayers = <<>>,
        !.activeCanvasStates = [i \in {0, 1} |-> Blank],
        !.canvasAssignments =
            [q \in {room.players[i] : i \in (1..Len(room.players)) \cap {1, 2}} |->
                IF q = room.players[1] THEN 0 ELSE 1],
        !.segmentHistory = EmptyMap,
        !.finalArtworks = <<>>,
        !.playerObjects =
            [i \in 1..Len(@) |-> [@[i] EXCEPT !.isDisconnected = FALSE, !.reconnectAttempts = 0]]]

ResetMessages(cs, r, room) ==
    {Msg(o, "gameReset", room,
         room.playerCount = MAX_PLAYERS /\ ~Includes(room.submittedPlayers, cs[o].playerId),
         room.playerCount < MAX_PLAYERS \/ Includes(room.submittedPlayers, cs[o].playerId),
         IF cs[o].playerId \in DOMAIN room.canvasAssignments
         THEN CanvasFor(room, cs[o].playerId) ELSE Blank)
        : o \in OpenIn(cs, r)}

\* data.gameRoomId is taken from the message, not from the socket
PlayAgain(c, r) ==
    /\ conns[c].state = "open"
    /\ pc[c] = "idle"
    /\ lastOp' = Observed(Op("playAgain", c, r, conns[c].playerId, 0, Blank), lastOp)
    /\ IF r \notin DOMAIN store
       THEN /\ lastSent' = Observed({}, lastSent)
            /\ UNCHANGED store
       ELSE /\ store' = [store EXCEPT ![r] = ResetRoom(store[r])]
            /\ lastSent' = Observed(ResetMessages(conns, r, store'[r]), lastSent)
    /\ UNCHANGED <<conns, timers, nextConn, nextRoom, pc, local, logging>>

\* ------------------------------------------------- handleWebSocketClose
\* the player marked disconnected with reconnectAttempts left as it was
MarkDisconnectedNoCount(room, p) ==
    LET i == FindPlayer(room.playerObjects, p)
    IN IF i = 0
       THEN room
       ELSE [room EXCEPT !.playerObjects[i].isDisconnected = TRUE]

\* disconnectedPlayer.isDisconnected = true, reconnectAttempts + 1 (when found)
MarkDisconnected(room, p) ==
    LET i == FindPlayer(room.playerObjects, p)
    IN IF i = 0
       THEN room
       ELSE [room EXCEPT
                !.playerObjects[i].isDisconnected = TRUE,
                !.playerObjects[i].reconnectAttempts = @ + 1]

\* playerObjects.some in place of playerObjects.every
SomePlayerDisconnected(room) ==
    \E i \in 1..Len(room.playerObjects) : room.playerObjects[i].isDisconnected

\* gameRoom.playerObjects.every((p) => p.isDisconnected)
AllPlayersDisconnected(room) ==
    \A i \in 1..Len(room.playerObjects) : room.playerObjects[i].isDisconnected

CloseMessages(cs, r, room, p) ==
    {Msg(o, "playerTemporarilyDisconnected", room, FALSE, FALSE, NoCanvas) :
        o \in {x \in OpenIn(cs, r) : cs[x].playerId # p}}

\* ws.on('close'): the socket leaves OPEN, then the handler runs
Close(c) ==
    /\ conns[c].state = "open"
    /\ pc[c] = "idle"
    /\ conns' = [conns EXCEPT ![c].state = "closed"]
    /\ lastOp' = Observed(Op("close", c, conns[c].gameRoomId, conns[c].playerId, 0, Blank), lastOp)
    /\ LET r == conns[c].gameRoomId
           p == conns[c].playerId
       IN IF r \notin DOMAIN store
          THEN /\ lastSent' = Observed({}, lastSent)
               /\ UNCHANGED <<store, timers>>
          ELSE LET marked == MarkDisconnected(store[r], p)
               IN IF store[r].status = "completed"
                  THEN /\ store' = IF AllPlayersDisconnected(marked)
                                   THEN MapDel(store, r)
                                   ELSE [store EXCEPT ![r].playerObjects = marked.playerObjects]
                       /\ lastSent' = Observed({}, lastSent)
                       /\ UNCHANGED timers
                  ELSE /\ timers' = timers \cup {<<r, p>>}
                       /\ store' = [store EXCEPT
                                        ![r].playerObjects = marked.playerObjects,
                                        ![r].disconnectionTimers = @ \cup {p}]
                       /\ lastSent' = Observed(CloseMessages(conns', r, marked, p), lastSent)
    /\ UNCHANGED <<nextConn, nextRoom, pc, local, logging>>

\* ----------------------------------------------------- grace timer callback
\* playerObjects.find((p) => p.id === id && p.isDisconnected): index, 0 if none
FindPlayerDisconnected(objs, id) ==
    IF \E i \in 1..Len(objs) : objs[i].id = id /\ objs[i].isDisconnected
    THEN CHOOSE i \in 1..Len(objs) :
            /\ objs[i].id = id /\ objs[i].isDisconnected
            /\ \A j \in 1..(i - 1) : ~(objs[j].id = id /\ objs[j].isDisconnected)
    ELSE 0

\* players / playerObjects filtered, playerCount = players.length
RemovePlayer(room, p) ==
    LET IsOther(q) == q # p
        IsOtherObj(o) == o.id # p
        players == SelectSeq(room.players, IsOther)
    IN [room EXCEPT
            !.players = players,
            !.playerObjects = SelectSeq(@, IsOtherObj),
            !.playerCount = Len(players)]

\* the reset with the canvas assignments of the interrupted game kept
RevertToWaitingKeepAssignments(room) ==
    [room EXCEPT
        !.status = "waiting",
        !.submittedPlayers = <<>>,
        !.currentSegmentIndex = 0,
        !.activeCanvasStates = [i \in {0, 1} |-> Blank],
        !.segmentHistory = EmptyMap,
        !.finalArtworks = <<>>]

\* the reset applied when a player remains after the removal
RevertToWaiting(room) ==
    [room EXCEPT
        !.status = "waiting",
        !.submittedPlayers = <<>>,
        !.currentSegmentIndex = 0,
        !.activeCanvasStates = [i \in {0, 1} |-> Blank],
        !.canvasAssignments = EmptyMap,
        !.segmentHistory = EmptyMap,
        !.finalArtworks = <<>>]

\* the check without the reconnectAttempts threshold
PlayerStillDisconnectedAnyAttempts(room, p) ==
    FindPlayerDisconnected(room.playerObjects, p) # 0

\* playerStillDisconnected && playerStillDisconnected.reconnectAttempts >= MAX_RECONNECT_ATTEMPTS
PlayerStillDisconnected(room, p) ==
    LET i == FindPlayerDisconnected(room.playerObjects, p)
    IN i # 0 /\ room.playerObjects[i].reconnectAttempts >= MAX_RECONNECT_ATTEMPTS

RemovalMessages(cs, r, room) ==
    {Msg(o, "playerPermanentlyDisconnected", [room EXCEPT !.currentSegmentIndex = 0],
         FALSE, FALSE, Blank) : o \in OpenIn(cs, r)}

TimerFire(r, p) ==
    /\ <<r, p>> \in timers
    /\ timers' = timers \ {<<r, p>>}
    /\ lastOp' = Observed(Op("timer", 0, r, p, 0, Blank), lastOp)
    /\ IF r \in DOMAIN store /\ PlayerStillDisconnected(store[r], p)
       THEN LET removed == RemovePlayer(store[r], p)
            IN IF removed.playerCount = 0
               THEN /\ store' = MapDel(store, r)
                    /\ lastSent' = Observed({}, lastSent)
               ELSE /\ store' = [store EXCEPT ![r] = RevertToWaiting(removed)]
                    /\ lastSent' = Observed(RemovalMessages(conns, r, store'[r]), lastSent)
       ELSE /\ lastSent' = Observed({}, lastSent)
            /\ UNCHANGED store
    /\ UNCHANGED <<conns, nextConn, nextRoom, pc, local, logging>>

\* the segmentIndex a client that follows its last view puts in the message
CurrentSegment(c) ==
    IF conns[c].gameRoomId \in DOMAIN store
    THEN {store[conns[c].gameRoomId].currentSegmentIndex}
    ELSE {0}

\* a submitSegment message carrying the segment index the client last saw
SubmitCurrent(c) == \E seg \in CurrentSegment(c) : SubmitSegment(c, seg, 1)

\* ------------------------------------------------------ requestInitialState
\* the reply of requestInitialState with no view in it
InitialStateSilent(c, room, p) == {}

\* the reply of requestInitialState (sent as 'playerJoined'): no drawing while
\* fewer than two players or after completion, otherwise by submittedPlayers;
\* the message has no status field and its image is left out of the model
InitialState(c, room, p) ==
    LET drawing == room.playerCount >= 2 /\ room.status # "completed"
    IN {[Msg(c, "playerJoined", room,
             drawing /\ ~Includes(room.submittedPlayers, p),
             drawing /\ Includes(room.submittedPlayers, p),
             NoCanvas) EXCEPT !.status = "none"]}

\* the message names the room by its id; the handler reads the room and replies
RequestInitialState(c, rid) ==
    /\ conns[c].state = "open"
    /\ pc[c] = "idle"
    /\ lastOp' = Observed(Op("requestInitialState", c, rid, conns[c].playerId, 0, Blank), lastOp)
    /\ lastSent' = Observed(IF rid \in DOMAIN store
                            THEN InitialState(c, store[rid], conns[c].playerId)
                            ELSE {Note(c, "error")}, lastSent)
    /\ UNCHANGED <<store, conns, timers, nextConn, nextRoom, pc, local, logging>>

\* -------------------------------------------------------------- clearCanvas
\* the submissions of the current segment dropped, submittedPlayers kept
ClearedRoomKeepSubmitted(room) ==
    [room EXCEPT !.segmentHistory = MapDel(@, room.currentSegmentIndex)]

\* $set of clearCanvas: the submissions whose segmentIndex is currentSegmentIndex
\* filtered out, submittedPlayers = []
ClearedRoom(room) ==
    [room EXCEPT
        !.segmentHistory = MapDel(@, room.currentSegmentIndex),
        !.submittedPlayers = <<>>]

\* the 'clearCanvas' broadcast: canvasData null, canDraw true
ClearMessages(cs, r) ==
    {[Note(o, "clearCanvas") EXCEPT !.canDraw = TRUE] : o \in OpenIn(cs, r)}

ClearCanvas(c) ==
    /\ conns[c].state = "open"
    /\ pc[c] = "idle"
    /\ lastOp' = Observed(Op("clearCanvas", c, conns[c].gameRoomId, conns[c].playerId, 0, Blank), lastOp)
    /\ LET r == conns[c].gameRoomId
       IN IF r = NoRoom
          THEN /\ lastSent' = Observed({Note(c, "error")}, lastSent)
               /\ UNCHANGED store
          ELSE IF r \notin DOMAIN store
          THEN /\ lastSent' = Observed({}, lastSent)
               /\ UNCHANGED store
          ELSE /\ store' = [store EXCEPT ![r] = ClearedRoom(store[r])]
               /\ lastSent' = Observed(ClearMessages(conns, r), lastSent)
    /\ UNCHANGED <<conns, timers, nextConn, nextRoom, pc, local, logging>>

\* --------------------------------- submitSegment with the Canvas Compositor
\* the submitSegment case and advanceSegment of src/game-handlers.js, which call
\* overlayCanvases, combineCanvases and createCanvasWithBottomPeek. An entry of
\* canvasSegments {segmentIndex, playerId, dataUrl} is segmentHistory[segmentIndex]
\* [playerId]; an isCombined entry, which has no playerId, is kept under NoPlayer.
\* The status this iteration writes as 'in-progress' is "playing"; finalArtwork is
\* the one element of finalArtworks.

\* an image returned by the Compositor
Composed == NumImages + 1

\* the individual drawings of segment k
Drawings(room, k) ==
    IF k \in DOMAIN room.segmentHistory
    THEN DOMAIN room.segmentHistory[k] \ {NoPlayer}
    ELSE {}

\* roomToUpdate.submittedPlayers.push, roomToUpdate.canvasSegments.push
PushSubmission(room, p, data) ==
    LET k == room.currentSegmentIndex
        seg == IF k \in DOMAIN room.segmentHistory THEN room.segmentHistory[k] ELSE EmptyMap
    IN [room EXCEPT
            !.submittedPlayers = Append(@, p),
            !.segmentHistory = MapSet(@, k, MapSet(seg, p, data))]

\* combinedSegmentOverlay: overlayCanvases of the drawings, a blank canvas when
\* there is none or when overlayCanvases throws
CombinedSegmentOverlay(room, overlayFails) ==
    IF Drawings(room, room.currentSegmentIndex) # {} /\ ~overlayFails
    THEN Composed
    ELSE Blank

\* finalArtworkData: combineCanvases of the combined segments, null when it throws
FinalArtworkData(combineFails) == IF combineFails THEN NoCanvas ELSE Composed

\* canvasDataForNextSegment: the peek of the combined artwork, a blank canvas
\* when combineCanvases or createCanvasWithBottomPeek throws
CanvasDataForNextSegment(combineFails) == IF combineFails THEN Blank ELSE Composed

\* advanceSegment: the combined entry pushed, currentSegmentIndex++,
\* submittedPlayers = [], then completion or the next segment
AdvanceSegmentComposed(room, overlayFails, combineFails) ==
    LET k == room.currentSegmentIndex
        seg == IF k \in DOMAIN room.segmentHistory THEN room.segmentHistory[k] ELSE EmptyMap
        pushed == [room EXCEPT
                    !.segmentHistory =
                        MapSet(@, k, MapSet(seg, NoPlayer,
                                            CombinedSegmentOverlay(room, overlayFails))),
                    !.currentSegmentIndex = k + 1,
                    !.submittedPlayers = <<>>]
    IN IF k + 1 >= TOTAL_SEGMENTS
       THEN [pushed EXCEPT
                !.status = "completed",
                !.finalArtworks = <<FinalArtworkData(combineFails)>>]
       ELSE [pushed EXCEPT !.status = "playing"]

\* the 'gameOver' or 'segmentAdvanced' broadcast of advanceSegment
AdvanceMessages(cs, r, room, combineFails) ==
    {[Msg(o, IF room.status = "completed" THEN "gameOver" ELSE "segmentAdvanced", room,
          room.status # "completed", FALSE,
          IF room.status = "completed"
          THEN FinalArtworkData(combineFails)
          ELSE CanvasDataForNextSegment(combineFails)) EXCEPT !.status = "none"]
        : o \in OpenIn(cs, r)}

\* 'submissionStatus' to the sender
SubmissionStatus(c) ==
    {[Note(c, "submissionStatus") EXCEPT !.isWaitingForOthers = TRUE]}

\* 'playerSubmitted' to the other open sockets of the room
PlayerSubmitted(cs, r, p) ==
    {[Note(o, "playerSubmitted") EXCEPT !.canDraw = TRUE]
        : o \in {x \in OpenIn(cs, r) : cs[x].playerId # p}}

\* the message carries the gameRoomId and playerId the client was given; whether
\* a Compositor call of the advance throws is decided outside the handler
SubmitComposed(c, data, overlayFails, combineFails) ==
    /\ conns[c].state = "open"
    /\ pc[c] = "idle"
    /\ lastOp' = Observed(Op("submitSegment", c, conns[c].gameRoomId, conns[c].playerId, 0, data), lastOp)
    /\ LET r == conns[c].gameRoomId
           p == conns[c].playerId
       IN IF r \notin DOMAIN store \/ Includes(store[r].submittedPlayers, p)
          THEN /\ lastSent' = Observed({Note(c, "error")}, lastSent)
               /\ UNCHANGED store
          ELSE LET pushed == PushSubmission(store[r], p, data)
               IN IF Len(pushed.submittedPlayers) = pushed.playerCount
                  THEN LET room == AdvanceSegmentComposed(pushed, overlayFails, combineFails)
                       IN /\ store' = [store EXCEPT ![r] = room]
                          /\ lastSent' = Observed(SubmissionStatus(c) \cup
                                            AdvanceMessages(conns, r, room, combineFails), lastSent)
                  ELSE /\ store' = [store EXCEPT ![r] = pushed]
                       /\ lastSent' = Observed(SubmissionStatus(c) \cup
                                            PlayerSubmitted(conns, r, p), lastSent)
    /\ UNCHANGED <<conns, timers, nextConn, nextRoom, pc, local, logging>>

\* ------------------------------------- submitSegment, one store call per step
\* collection.updateOne({ _id }, { $set: gameRoom }): every field of the stored
\* document is overwritten by the in-memory copy; no document, no effect
UpdateOne(st, r, room) == IF r \in DOMAIN st THEN [st EXCEPT ![r] = room] ELSE st

\* await findOne, then the synchronous update of the in-memory gameRoom up to the
\* first await updateOne
SubmitRead(c, data) ==
    /\ conns[c].state = "open"
    /\ pc[c] \in {"idle", "done"}
    /\ LET r == conns[c].gameRoomId
           p == conns[c].playerId
       IN IF r \notin DOMAIN store \/ store[r].status # "playing"
          THEN /\ pc' = [pc EXCEPT ![c] = "idle"]
               /\ local' = [local EXCEPT ![c] = EmptyMap]
          ELSE LET recorded == RecordSubmission(store[r], p, data)
               IN /\ pc' = [pc EXCEPT ![c] = "read"]
                  /\ local' = [local EXCEPT ![c] =
                        [roomId |-> r, playerId |-> p, data |-> data,
                         segmentIndex |-> store[r].currentSegmentIndex,
                         advance |-> AllSubmitted(recorded),
                         gameRoom |-> IF AllSubmitted(recorded)
                                      THEN AdvanceSegment(recorded) ELSE recorded]]
    /\ UNCHANGED <<store, conns, timers, nextConn, nextRoom, lastOp, lastSent, logging>>

\* the first updateOne the handler reaches: the one inside the advance branch, or
\* the trailing one when the handler did not advance
SubmitWrite(c) ==
    /\ pc[c] = "read"
    /\ store' = UpdateOne(store, local[c].roomId, local[c].gameRoom)
    /\ pc' = [pc EXCEPT ![c] = IF local[c].advance THEN "advanced" ELSE "done"]
    /\ UNCHANGED <<conns, timers, nextConn, nextRoom, lastOp, lastSent, local, logging>>

\* after an advance: the 'gameUpdate' broadcast, then the trailing updateOne
SubmitFinish(c) ==
    /\ pc[c] = "advanced"
    /\ store' = UpdateOne(store, local[c].roomId, local[c].gameRoom)
    /\ pc' = [pc EXCEPT ![c] = "done"]
    /\ lastSent' = Observed(UpdateMessages(conns, local[c].roomId, local[c].gameRoom), lastSent)
    /\ UNCHANGED <<conns, timers, nextConn, nextRoom, lastOp, local, logging>>

\* ------------------------------------------ joinGame, one store call per step
\* await findOne, then the synchronous part up to await updateOne: the socket is
\* bound and the in-memory gameRoom updated
JoinRead(c, code, cancelled) ==
    /\ conns[c].state = "open"
    /\ pc[c] = "idle"
    /\ LET r == FindByCode(code)
           i == IF r = NoRoom THEN 0 ELSE FindPlayer(store[r].playerObjects, c)
       IN IF r = NoRoom \/ store[r].status = "completed"
          THEN UNCHANGED <<conns, timers, pc, local>>
          ELSE /\ conns' = [conns EXCEPT ![c] = [@ EXCEPT !.gameRoomId = r, !.playerId = c]]
               /\ pc' = [pc EXCEPT ![c] = "joining"]
               /\ IF i # 0 /\ store[r].playerObjects[i].isDisconnected
                  THEN /\ timers' = ClearTimeout(store[r], r, c, cancelled)
                       /\ local' = [local EXCEPT ![c] =
                            [roomId |-> r, reconnect |-> TRUE,
                             gameRoom |-> MarkReconnected(store[r], i)]]
                  ELSE /\ timers' = timers
                       /\ local' = [local EXCEPT ![c] =
                            [roomId |-> r, reconnect |-> FALSE,
                             gameRoom |-> JoinRoom(store[r], c)]]
    /\ UNCHANGED <<store, nextConn, nextRoom, lastOp, lastSent, logging>>

\* the joinGame message of a connection that is bound to no room yet
FirstJoinRead(c, code) == conns[c].gameRoomId = NoRoom /\ JoinRead(c, code, TRUE)

\* the updateOne takes effect, then the handler broadcasts
JoinWrite(c) ==
    /\ pc[c] = "joining"
    /\ store' = UpdateOne(store, local[c].roomId, local[c].gameRoom)
    /\ pc' = [pc EXCEPT ![c] = "idle"]
    /\ local' = [local EXCEPT ![c] = EmptyMap]
    /\ lastSent' = Observed(
            IF local[c].reconnect
            THEN ReconnectMessages(conns, c, local[c].roomId, local[c].gameRoom, c)
            ELSE JoinMessages(conns, local[c].roomId, local[c].gameRoom), lastSent)
    /\ UNCHANGED <<conns, timers, nextConn, nextRoom, lastOp, logging>>

\* ------------------------------------- reconnectGame, one store call per step
\* await findOne, then the checks and the synchronous part up to await updateOne:
\* the socket is bound, the player marked connected, the timer handle cleared
ReconnectRead(c, code, p, cancelled) ==
    /\ conns[c].state = "open"
    /\ pc[c] = "idle"
    /\ LET r == FindByCode(code)
           i == IF r = NoRoom THEN 0 ELSE FindPlayer(store[r].playerObjects, p)
       IN IF r = NoRoom
             \/ i = 0
             \/ ~store[r].playerObjects[i].isDisconnected
             \/ store[r].playerObjects[i].reconnectAttempts >= MAX_RECONNECT_ATTEMPTS
          THEN /\ lastSent' = Observed({Note(c, "reconnectFailed")}, lastSent)
               /\ UNCHANGED <<conns, timers, pc, local>>
          ELSE /\ conns' = [conns EXCEPT ![c] = [@ EXCEPT !.gameRoomId = r, !.playerId = p]]
               /\ timers' = ClearTimeout(store[r], r, p, cancelled)
               /\ pc' = [pc EXCEPT ![c] = "reconnecting"]
               /\ local' = [local EXCEPT ![c] =
                    [roomId |-> r, playerId |-> p,
                     gameRoom |-> MarkReconnected(store[r], i)]]
               /\ UNCHANGED lastSent
    /\ UNCHANGED <<store, nextConn, nextRoom, lastOp, logging>>

\* the reconnectGame message of a fresh connection
FirstReconnectRead(c, code, p) ==
    conns[c].gameRoomId = NoRoom /\ ReconnectRead(c, code, p, TRUE)

\* the updateOne takes effect, then the replies are sent
ReconnectWrite(c) ==
    /\ pc[c] = "reconnecting"
    /\ store' = UpdateOne(store, local[c].roomId, local[c].gameRoom)
    /\ pc' = [pc EXCEPT ![c] = "idle"]
    /\ local' = [local EXCEPT ![c] = EmptyMap]
    /\ lastSent' = Observed(ReconnectMessages(conns, c, local[c].roomId,
                                              local[c].gameRoom, local[c].playerId), lastSent)
    /\ UNCHANGED <<conns, timers, nextConn, nextRoom, lastOp, logging>>

\* ----------------------------------------- createGame, one store call per step
\* the room ids and game codes of a run in which two createGame handlers overlap
RaceRoomIds == 1..MaxRaceRooms

RaceCodes == 1..MaxRaceCodes

\* generateUniqueGameCode and await findOne({ gameCode }), repeated until no
\* document has the code drawn: the handler goes on with a code that was free
\* when it looked
CreateRead(c, code) ==
    /\ conns[c].state = "open"
    /\ pc[c] = "idle"
    /\ conns[c].gameRoomId = NoRoom
    /\ FindByCode(code) = NoRoom
    /\ pc' = [pc EXCEPT ![c] = "creating"]
    /\ local' = [local EXCEPT ![c] = [gameCode |-> code]]
    /\ UNCHANGED <<store, conns, timers, nextConn, nextRoom, lastOp, lastSent, logging>>

\* await insertOne(newGameRoom), then the socket is bound and 'gameCreated' sent
CreateInsert(c) ==
    /\ pc[c] = "creating"
    /\ nextRoom < MaxRaceRooms
    /\ nextRoom' = nextRoom + 1
    /\ store' = MapSet(store, nextRoom + 1, NewGameRoom(local[c].gameCode, c))
    /\ conns' = [conns EXCEPT ![c] = [@ EXCEPT !.gameRoomId = nextRoom + 1, !.playerId = c]]
    /\ pc' = [pc EXCEPT ![c] = "idle"]
    /\ local' = [local EXCEPT ![c] = EmptyMap]
    /\ lastOp' = Observed(Op("createGame", c, nextRoom + 1, c, 0, Blank), lastOp)
    /\ lastSent' = Observed({[Msg(c, "gameCreated", store'[nextRoom + 1], FALSE, TRUE, Blank)
                                    EXCEPT !.status = "none"]}, lastSent)
    /\ UNCHANGED <<timers, nextConn, logging>>

\* ------------------------------------------- submitSegment, a store call fails
\* the store calls of the submitSegment handler, in the order it reaches them:
\* findOne, the updateOne of the advance branch, the updateOne that ends the handler
StoreCalls == {"findOne", "updateOne", "lastUpdateOne"}

\* the handler reaches the store call failAt with the store as it is
ReachesCall(c, data, failAt) ==
    LET r == conns[c].gameRoomId
    IN \/ failAt = "findOne"
       \/ /\ r \in DOMAIN store
          /\ store[r].status = "playing"
          /\ failAt = "updateOne" =>
                AllSubmitted(RecordSubmission(store[r], conns[c].playerId, data))

\* the promise of the store call failAt rejects: handleWebSocketMessage has no
\* try/catch, so the rest of the handler does not run and the rejection leaves
\* the handler; what ran before the call stays done
SubmitStoreFails(c, data, failAt) ==
    /\ conns[c].state = "open"
    /\ pc[c] = "idle"
    /\ ReachesCall(c, data, failAt)
    /\ lastOp' = Observed(Op("submitSegment", c, conns[c].gameRoomId, conns[c].playerId,
                             0, data), lastOp)
    /\ LET r == conns[c].gameRoomId
       IN IF failAt = "lastUpdateOne"
             /\ AllSubmitted(RecordSubmission(store[r], conns[c].playerId, data))
          THEN LET room == AdvanceSegment(RecordSubmission(store[r], conns[c].playerId, data))
               IN /\ store' = [store EXCEPT ![r] = room]
                  /\ lastSent' = Observed(UpdateMessages(conns, r, room), lastSent)
          ELSE /\ lastSent' = Observed({}, lastSent)
               /\ UNCHANGED store
    /\ UNCHANGED <<conns, timers, nextConn, nextRoom, pc, local, logging>>

\* --------------------------------------------- a send of a broadcast fails
\* wss.clients.forEach visits the sockets in the order they connected; a loop
\* that stops at the socket whose send fails makes the calls up to that socket
SendUntilFailure(msgs, bad) == {m \in msgs : m.to <= bad}

\* client.send on an OPEN socket returns when the transport fails: the failure
\* is reported on that socket's 'error' event, which server.js logs, so the loop
\* makes the call for every socket it selects
SendEach(msgs, bad) == msgs

\* the handled message, with the socket to which the send failed
OpFailed(op, bad) == [failed |-> bad] @@ op

\* joinGame of a new player, the send to the open socket bad of the room failing
JoinSendFails(c, code, bad) ==
    /\ conns[c].state = "open"
    /\ pc[c] = "idle"
    /\ LET r == FindByCode(code)
       IN /\ r # NoRoom
          /\ store[r].status # "completed"
          /\ FindPlayerDisconnected(store[r].playerObjects, c) = 0
          /\ LET room == JoinRoom(store[r], c)
             IN /\ conns' = [conns EXCEPT ![c] = [@ EXCEPT !.gameRoomId = r, !.playerId = c]]
                /\ bad \in OpenIn(conns', r)
                /\ store' = [store EXCEPT ![r] = room]
                /\ lastOp' = Observed(OpFailed(Op("joinGame", c, r, c, 0, Blank), bad), lastOp)
                /\ lastSent' = Observed(SendEach(JoinMessages(conns', r, room), bad), lastSent)
    /\ UNCHANGED <<timers, nextConn, nextRoom, pc, local, logging>>

\* the submitSegment that advances the room, the send to the open socket bad of
\* the room failing; the updateOne that follows the broadcast writes the same room
SubmitSendFails(c, data, bad) ==
    /\ conns[c].state = "open"
    /\ pc[c] = "idle"
    /\ LET r == conns[c].gameRoomId
           p == conns[c].playerId
       IN /\ r \in DOMAIN store
          /\ store[r].status = "playing"
          /\ AllSubmitted(RecordSubmission(store[r], p, data))
          /\ bad \in OpenIn(conns, r)
          /\ LET room == AdvanceSegment(RecordSubmission(store[r], p, data))
             IN /\ store' = [store EXCEPT ![r] = room]
                /\ lastOp' = Observed(OpFailed(Op("submitSegment", c, r, p,
                                        store[r].currentSegmentIndex, data), bad), lastOp)
                /\ lastSent' = Observed(SendEach(UpdateMessages(conns, r, room), bad), lastSent)
    /\ UNCHANGED <<conns, timers, nextConn, nextRoom, pc, local, logging>>

\* every handler, each run to completion before the next starts
Next ==
    \/ Connect(MaxConns)
    \/ \E c \in ConnIds, code \in Codes : CreateGame(c, code)
    \/ \E c \in ConnIds, code \in Codes, p \in ConnIds, cancelled \in BOOLEAN :
            ReconnectGame(c, code, p, cancelled)
    \/ \E c \in ConnIds, code \in Codes, cancelled \in BOOLEAN : JoinGame(c, code, cancelled)
    \/ \E c \in ConnIds : SubmitCurrent(c)
    \/ \E c \in ConnIds, r \in RoomIds : PlayAgain(c, r)
    \/ \E c \in ConnIds : Close(c)
    \/ \E r \in RoomIds, p \in ConnIds : TimerFire(r, p)

Spec == Init /\ [][Next]_vars

\* membership and connection events only, with the handled event and its replies recorded
NextJoin ==
    \/ Connect(MaxConns)
    \/ \E c \in ConnIds, code \in Codes : CreateGame(c, code)
    \/ \E c \in ConnIds, code \in Codes, p \in ConnIds, cancelled \in BOOLEAN :
            ReconnectGame(c, code, p, cancelled)
    \/ \E c \in ConnIds, code \in Codes, cancelled \in BOOLEAN : JoinGame(c, code, cancelled)
    \/ \E c \in ConnIds : Close(c)
    \/ \E r \in RoomIds, p \in ConnIds : TimerFire(r, p)

SpecJoin == InitLogged /\ [][NextJoin]_vars

\* a game between the players that stay connected, with any segmentIndex and any image
\* in a submitSegment message, events and replies recorded
NextPlay ==
    \/ Connect(MaxPlayConns)
    \/ \E c \in ConnIds, code \in Codes : CreateGame(c, code)
    \/ \E c \in ConnIds, code \in Codes : JoinGame(c, code, TRUE)
    \/ \E c \in ConnIds, seg \in 0..(TOTAL_SEGMENTS - 1), data \in Images :
            SubmitSegment(c, seg, data)

SpecPlay == InitLogged /\ [][NextPlay]_vars

\* a game in which a late joiner may enter, events and replies recorded
NextGame ==
    \/ Connect(MaxConns)
    \/ \E c \in ConnIds, code \in Codes : CreateGame(c, code)
    \/ \E c \in ConnIds, code \in Codes : JoinGame(c, code, TRUE)
    \/ \E c \in ConnIds : SubmitCurrent(c)

SpecGame == InitLogged /\ [][NextGame]_vars

\* two players whose submitSegment handlers suspend at each store call, so that
\* the store calls of handlers of one room interleave
NextRace ==
    \/ Connect(MaxPlayConns)
    \/ \E c \in ConnIds, code \in Codes : CreateGame(c, code)
    \/ \E c \in ConnIds, code \in Codes : JoinGame(c, code, TRUE)
    \/ \E c \in ConnIds, data \in Images : SubmitRead(c, data)
    \/ \E c \in ConnIds : SubmitWrite(c)
    \/ \E c \in ConnIds : SubmitFinish(c)

SpecRace == Init /\ [][NextRace]_vars

\* joinGame handlers that suspend at each store call, among submissions; a
\* connection sends joinGame while it is bound to no room
NextJoinRace ==
    \/ Connect(MaxConns)
    \/ \E c \in ConnIds, code \in Codes : CreateGame(c, code)
    \/ \E c \in ConnIds, code \in Codes : FirstJoinRead(c, code)
    \/ \E c \in ConnIds : JoinWrite(c)
    \/ \E c \in ConnIds : SubmitCurrent(c)

SpecJoinRace == Init /\ [][NextJoinRace]_vars

\* a game in which a player whose socket closed comes back on a fresh
\* connection, the reconnectGame handler suspending at each store call
NextReconnectRace ==
    \/ Connect(MaxConns)
    \/ \E c \in ConnIds, code \in Codes : CreateGame(c, code)
    \/ \E c \in ConnIds, code \in Codes : JoinGame(c, code, TRUE)
    \/ \E c \in ConnIds : SubmitCurrent(c)
    \/ \E c \in ConnIds : Close(c)
    \/ \E c \in ConnIds, code \in Codes, p \in ConnIds : FirstReconnectRead(c, code, p)
    \/ \E c \in ConnIds : ReconnectWrite(c)

SpecReconnectRace == Init /\ [][NextReconnectRace]_vars

\* games that may be played again, events and replies recorded
NextReplay ==
    \/ Connect(MaxConns)
    \/ \E c \in ConnIds, code \in Codes : CreateGame(c, code)
    \/ \E c \in ConnIds, code \in Codes : JoinGame(c, code, TRUE)
    \/ \E c \in ConnIds : SubmitCurrent(c)
    \/ \E c \in ConnIds, r \in RoomIds : PlayAgain(c, r)

SpecReplay == InitLogged /\ [][NextReplay]_vars

\* a game whose players' sockets may close, events and replies recorded
NextLeave ==
    \/ Connect(MaxConns)
    \/ \E c \in ConnIds, code \in Codes : CreateGame(c, code)
    \/ \E c \in ConnIds, code \in Codes : JoinGame(c, code, TRUE)
    \/ \E c \in ConnIds : SubmitCurrent(c)
    \/ \E c \in ConnIds : Close(c)

SpecLeave == InitLogged /\ [][NextLeave]_vars

\* membership and connection events, every armed grace timer eventually firing
\* (setTimeout runs its callback once RECONNECT_GRACE_PERIOD_MS has elapsed)
TimerFires == \E r \in RoomIds, p \in ConnIds : TimerFire(r, p)

SpecGrace == Init /\ [][NextJoin]_vars /\ WF_vars(TimerFires)

\* ---------------------------------------- a player's clients reconnect at once
\* the first connection creates the room before another is opened, and the room
\* is joined while only the first MAX_PLAYERS connections exist
SetUpCreate(c, code) == nextConn = 1 /\ CreateGame(c, code)

SetUpJoin(c, code) == nextConn <= MAX_PLAYERS /\ JoinGame(c, code, TRUE)

\* the close of a socket bound to a room (ws.gameRoomId set)
BoundClose(c) == conns[c].gameRoomId # NoRoom /\ Close(c)

\* a client sends reconnectGame as soon as its connection is open
NewestReconnectRead(c, code, p) == c = nextConn /\ FirstReconnectRead(c, code, p)

\* the store answers the updateOne calls in the order they were issued
OrderedReconnectWrite(c) ==
    /\ \A o \in 1..(c - 1) : pc[o] = "idle"
    /\ ReconnectWrite(c)

\* several fresh connections present the same disconnected player before the
\* first of their reconnectGame handlers has written; each of them later closes
NextRemoval ==
    \/ Connect(MaxStormConns)
    \/ \E c \in ConnIds, code \in Codes : SetUpCreate(c, code)
    \/ \E c \in ConnIds, code \in Codes : SetUpJoin(c, code)
    \/ \E c \in ConnIds : BoundClose(c)
    \/ \E c \in ConnIds, code \in Codes, p \in ConnIds : NewestReconnectRead(c, code, p)
    \/ \E c \in ConnIds : OrderedReconnectWrite(c)
    \/ \E r \in RoomIds, p \in ConnIds : TimerFire(r, p)

SpecRemoval == InitLogged /\ [][NextRemoval]_vars

\* a game whose clients may ask for their view again, events and replies recorded
NextRefresh ==
    \/ Connect(MaxConns)
    \/ \E c \in ConnIds, code \in Codes : CreateGame(c, code)
    \/ \E c \in ConnIds, code \in Codes : JoinGame(c, code, TRUE)
    \/ \E c \in ConnIds : SubmitCurrent(c)
    \/ \E c \in ConnIds, rid \in RoomIds \cup {NoRoom} : RequestInitialState(c, rid)

SpecRefresh == InitLogged /\ [][NextRefresh]_vars

\* a game whose players may clear the canvas, events and replies recorded
NextClear ==
    \/ Connect(MaxConns)
    \/ \E c \in ConnIds, code \in Codes : CreateGame(c, code)
    \/ \E c \in ConnIds, code \in Codes : JoinGame(c, code, TRUE)
    \/ \E c \in ConnIds : SubmitCurrent(c)
    \/ \E c \in ConnIds : ClearCanvas(c)

SpecClear == InitLogged /\ [][NextClear]_vars

\* a client submits a drawing until it is told that the game is over
SubmitDrawing(c, data, overlayFails, combineFails) ==
    /\ conns[c].gameRoomId \in DOMAIN store =>
            store[conns[c].gameRoomId].status # "completed"
    /\ SubmitComposed(c, data, overlayFails, combineFails)

\* a game whose advance composes images, any Compositor call of which may throw;
\* events and replies recorded
NextCompose ==
    \/ Connect(MaxPlayConns)
    \/ \E c \in ConnIds, code \in Codes : CreateGame(c, code)
    \/ \E c \in ConnIds, code \in Codes : JoinGame(c, code, TRUE)
    \/ \E c \in ConnIds, data \in Images, overlayFails \in BOOLEAN, combineFails \in BOOLEAN :
            SubmitDrawing(c, data, overlayFails, combineFails)

SpecCompose == InitLogged /\ [][NextCompose]_vars

\* createGame handlers that suspend at each store call, and players who join the
\* rooms by code
NextCreateRace ==
    \/ Connect(MaxConns)
    \/ \E c \in ConnIds, code \in RaceCodes : CreateRead(c, code)
    \/ \E c \in ConnIds : CreateInsert(c)
    \/ \E c \in ConnIds, code \in RaceCodes : JoinGame(c, code, TRUE)

SpecCreateRace == Init /\ [][NextCreateRace]_vars

\* a game during which any store call of a submitSegment handler may fail;
\* events and replies recorded
NextStoreFail ==
    \/ Connect(MaxPlayConns)
    \/ \E c \in ConnIds, code \in Codes : CreateGame(c, code)
    \/ \E c \in ConnIds, code \in Codes : JoinGame(c, code, TRUE)
    \/ \E c \in ConnIds : SubmitCurrent(c)
    \/ \E c \in ConnIds, data \in Images, failAt \in StoreCalls :
            SubmitStoreFails(c, data, failAt)

SpecStoreFail == InitLogged /\ [][NextStoreFail]_vars

\* a game in which a late joiner may enter and the send of a broadcast may fail
\* for one of its recipients; events and replies recorded
NextSendFail ==
    \/ Connect(MaxConns)
    \/ \E c \in ConnIds, code \in Codes : CreateGame(c, code)
    \/ \E c \in ConnIds, code \in Codes : JoinGame(c, code, TRUE)
    \/ \E c \in ConnIds : SubmitCurrent(c)
    \/ \E c \in ConnIds, code \in Codes, bad \in ConnIds : JoinSendFails(c, code, bad)
    \/ \E c \in ConnIds, bad \in ConnIds : SubmitSendFails(c, 1, bad)

SpecSendFail == InitLogged /\ [][NextSendFail]_vars

\* a member that has not yet submitted for the current segment of its playing
\* room sends its drawing for that segment
SubmitPending(c, data) ==
    /\ conns[c].gameRoomId \in DOMAIN store
    /\ store[conns[c].gameRoomId].status = "playing"
    /\ ~Includes(store[conns[c].gameRoomId].submittedPlayers, conns[c].playerId)
    /\ SubmitSegment(c, store[conns[c].gameRoomId].currentSegmentIndex, data)

SubmitsPending(c) == \E data \in Images : SubmitPending(c, data)

\* the two clients of a game: each creates or joins a room once, while its
\* connection is bound to none, and stays in it
MemberCreates(c, code) == conns[c].gameRoomId = NoRoom /\ CreateGame(c, code)

MemberJoins(c, code) == conns[c].gameRoomId = NoRoom /\ JoinGame(c, code, TRUE)

\* a game of the MAX_PLAYERS players of a room, who stay connected, each
\* submitting once for every segment; a member that has yet to submit for the
\* segment eventually does, and the handler of a received message runs to its end
NextFinish ==
    \/ Connect(MAX_PLAYERS)
    \/ \E c \in ConnIds, code \in Codes : MemberCreates(c, code)
    \/ \E c \in ConnIds, code \in Codes : MemberJoins(c, code)
    \/ \E c \in ConnIds : SubmitsPending(c)

SpecFinish ==
    InitLogged /\ [][NextFinish]_vars /\ \A c \in 1..MAX_PLAYERS : WF_vars(SubmitsPending(c))

\* ================================================================ properties
Members(room) == SeqToSet(room.players)

Submitted(room) == SeqToSet(room.submittedPlayers)

\* the players whose submission for segment k is in segmentHistory
RecordedAt(room, k) ==
    IF k \in DOMAIN room.segmentHistory THEN DOMAIN room.segmentHistory[k] ELSE {}

\* the room as it stands once segment k has been advanced exactly once
AdvancedOnceFrom(room, k) ==
    IF k + 1 < TOTAL_SEGMENTS
    THEN room.status = "playing" /\ room.currentSegmentIndex = k + 1
    ELSE room.status = "completed" /\ room.currentSegmentIndex = k

\* C1: when the two members of a room submit the same segment in handlers whose
\* store reads and writes interleave, then once both handlers have finished both
\* submissions are recorded and the room has advanced exactly once.
C1_ConcurrentSubmitsAdvanceOnce ==
    \A c1, c2 \in ConnIds :
        (/\ c1 # c2
         /\ pc[c1] = "done" /\ pc[c2] = "done"
         /\ local[c1].roomId = local[c2].roomId
         /\ local[c1].segmentIndex = local[c2].segmentIndex
         /\ local[c1].playerId # local[c2].playerId
         /\ Members(store[local[c1].roomId]) = {local[c1].playerId, local[c2].playerId})
        => /\ {local[c1].playerId, local[c2].playerId}
                \subseteq RecordedAt(store[local[c1].roomId], local[c1].segmentIndex)
           /\ AdvancedOnceFrom(store[local[c1].roomId], local[c1].segmentIndex)

\* a submitSegment step moved room r to its next segment or completed it
Advances(r) ==
    /\ r \in DOMAIN store /\ r \in DOMAIN store'
    /\ \/ store'[r].currentSegmentIndex # store[r].currentSegmentIndex
       \/ store'[r].status = "completed" /\ store[r].status # "completed"

\* C2: a room advances only in a submitSegment step after which every current
\* member has submitted the segment, and by one segment at a time, so at most
\* once for each segment index.
C2_AdvanceOnlyWhenAllSubmitted ==
    [][\A r \in RoomIds :
        Advances(r) =>
            /\ lastOp'.type = "submitSegment" /\ lastOp'.room = r
            /\ Members(store[r]) \subseteq Submitted(store[r]) \cup {lastOp'.player}
            /\ AdvancedOnceFrom(store'[r], store[r].currentSegmentIndex)]_vars

\* C3: no room ever has more than two members.
C3_AtMostTwoPlayers ==
    \A r \in DOMAIN store : Len(store[r].players) <= MAX_PLAYERS

\* C4: a joinGame from a player who is not a member, into a room that already has
\* two distinct members, leaves the room unchanged and is answered with an error.
C4_JoinFullRoomRejected ==
    [][(/\ lastOp'.type = "joinGame"
        /\ lastOp'.room \in DOMAIN store
        /\ Cardinality(Members(store[lastOp'.room])) = MAX_PLAYERS
        /\ lastOp'.player \notin Members(store[lastOp'.room]))
       => /\ store' = store
          /\ \E m \in lastSent' : m.to = lastOp'.conn /\ m.type = "error"]_vars

\* C5: in every state of every room, submittedPlayers is a subset of players.
C5_SubmittedSubsetOfPlayers ==
    \A r \in DOMAIN store : Submitted(store[r]) \subseteq Members(store[r])

\* C6: while a room is playing, canvasAssignments maps its members one-to-one
\* onto the canvases 0 and 1.
C6_PlayingAssignmentBijection ==
    \A r \in DOMAIN store :
        store[r].status = "playing" =>
            /\ DOMAIN store[r].canvasAssignments = Members(store[r])
            /\ {store[r].canvasAssignments[p] : p \in DOMAIN store[r].canvasAssignments} = {0, 1}
            /\ Cardinality(Members(store[r])) = 2

\* a joinGame step by a non-member into waiting room r that has one member
JoinFillsRoom(r) ==
    /\ lastOp'.type = "joinGame" /\ lastOp'.room = r
    /\ r \in DOMAIN store
    /\ store[r].status = "waiting"
    /\ Len(store[r].players) = 1
    /\ lastOp'.player \notin Members(store[r])

\* the room r as the step leaves it: playing at segment 0, the earlier joiner on
\* canvas 0 and the later on canvas 1, nothing submitted, both canvases blank
GameStarted(r) ==
    /\ store'[r].status = "playing"
    /\ store'[r].currentSegmentIndex = 0
    /\ store'[r].players = <<store[r].players[1], lastOp'.player>>
    /\ DOMAIN store'[r].canvasAssignments = Members(store'[r])
    /\ store'[r].canvasAssignments[store[r].players[1]] = 0
    /\ store'[r].canvasAssignments[lastOp'.player] = 1
    /\ store'[r].submittedPlayers = <<>>
    /\ \A i \in {0, 1} : store'[r].activeCanvasStates[i] = Blank

\* C7 as stated: when a joinGame brings a waiting room to two members the game
\* starts and both members are sent canDraw = true.
C7_JoinStartsGameBothMembersSent ==
    [][\A r \in RoomIds :
        JoinFillsRoom(r) =>
            /\ GameStarted(r)
            /\ \A p \in Members(store'[r]) :
                \E m \in lastSent' : conns'[m.to].playerId = p /\ m.canDraw]_vars

\* C7 amended: when a joinGame brings a waiting room to two members the game
\* starts and every open connection bound to the room is sent a gameJoined
\* message with canDraw = true.
C7_JoinStartsGameOpenConnectionsSent ==
    [][\A r \in RoomIds :
        JoinFillsRoom(r) =>
            /\ GameStarted(r)
            /\ \A o \in OpenIn(conns', r) :
                \E m \in lastSent' :
                    m.to = o /\ m.type = "gameJoined" /\ m.status = "playing" /\ m.canDraw]_vars

\* a joinGame has just started the game of a room and both members were told
C7_Witness ==
    /\ lastOp.type = "joinGame"
    /\ lastOp.room \in DOMAIN store
    /\ store[lastOp.room].status = "playing"
    /\ Len(store[lastOp.room].players) = 2
    /\ store[lastOp.room].players[2] = lastOp.player
    /\ Cardinality({m \in lastSent : m.type = "gameJoined" /\ m.canDraw}) = 2

\* the fields of room r that a submission writes
SubmissionState(room) ==
    <<room.status, room.currentSegmentIndex, room.submittedPlayers,
      room.activeCanvasStates, room.canvasAssignments, room.segmentHistory,
      room.finalArtworks>>

\* C8: a submitSegment whose segmentIndex is not the room's currentSegmentIndex
\* changes none of submittedPlayers, the active canvases, segmentHistory and
\* currentSegmentIndex.
C8_StaleSegmentRejected ==
    [][(/\ lastOp'.type = "submitSegment"
        /\ lastOp'.room \in DOMAIN store
        /\ store[lastOp'.room].status = "playing"
        /\ lastOp'.seg # store[lastOp'.room].currentSegmentIndex)
       => SubmissionState(store'[lastOp'.room]) = SubmissionState(store[lastOp'.room])]_vars

\* C9: a submitSegment from a player already in submittedPlayers for the current
\* segment is a no-op for any imageData.
C9_DuplicateSubmissionRejected ==
    [][(/\ lastOp'.type = "submitSegment"
        /\ lastOp'.room \in DOMAIN store
        /\ store[lastOp'.room].status = "playing"
        /\ lastOp'.player \in Submitted(store[lastOp'.room]))
       => SubmissionState(store'[lastOp'.room]) = SubmissionState(store[lastOp'.room])]_vars

\* C10: the second of two submitSegment calls with the same playerId, segmentIndex
\* and imageData leaves the room as the first left it.
C10_SubmitTwiceSameAsOnce ==
    [][(/\ lastOp.type = "submitSegment" /\ lastOp'.type = "submitSegment"
        /\ lastOp'.conn = lastOp.conn /\ lastOp'.room = lastOp.room
        /\ lastOp'.player = lastOp.player
        /\ lastOp'.seg = lastOp.seg /\ lastOp'.data = lastOp.data)
       => store' = store]_vars

\* a submitSegment step that the room has to accept: the sender is a member of
\* playing room r that has not yet submitted the segment the message names
AcceptedSubmit(r) ==
    /\ lastOp'.type = "submitSegment" /\ lastOp'.room = r
    /\ r \in DOMAIN store
    /\ store[r].status = "playing"
    /\ lastOp'.player \in Members(store[r])
    /\ lastOp'.player \notin Submitted(store[r])
    /\ lastOp'.seg = store[r].currentSegmentIndex

\* C11: an accepted submitSegment from member p writes the image into the canvas
\* assigned to p, records it in segmentHistory[currentSegmentIndex][p] and adds p
\* to submittedPlayers (until the advance it may trigger clears the list); the
\* other canvas and the other entries of that segment are left unchanged.
C11_SubmissionRecorded ==
    [][\A r \in RoomIds :
        AcceptedSubmit(r) =>
            LET p == lastOp'.player
                k == store[r].currentSegmentIndex
            IN /\ p \in DOMAIN store[r].canvasAssignments
               /\ store'[r].activeCanvasStates[store[r].canvasAssignments[p]] = lastOp'.data
               /\ \A i \in {0, 1} \ {store[r].canvasAssignments[p]} :
                    store'[r].activeCanvasStates[i] = store[r].activeCanvasStates[i]
               /\ p \in RecordedAt(store'[r], k)
               /\ store'[r].segmentHistory[k][p] = lastOp'.data
               /\ \A q \in RecordedAt(store[r], k) \ {p} :
                    /\ q \in RecordedAt(store'[r], k)
                    /\ store'[r].segmentHistory[k][q] = store[r].segmentHistory[k][q]
               /\ \/ Advances(r)
                  \/ store'[r].submittedPlayers = Append(store[r].submittedPlayers, p)]_vars

\* C13: a completed room has currentSegmentIndex = TOTAL_SEGMENTS and exactly two
\* final artworks.
C13_CompletedAtSegmentCount ==
    \A r \in DOMAIN store :
        store[r].status = "completed" =>
            /\ store[r].currentSegmentIndex = TOTAL_SEGMENTS
            /\ Len(store[r].finalArtworks) = 2

\* C14: a submitSegment to a completed room changes nothing in the room and is
\* answered to the sender with an error.
C14_SubmitAfterCompletionRejected ==
    [][(/\ lastOp'.type = "submitSegment"
        /\ lastOp'.room \in DOMAIN store
        /\ store[lastOp'.room].status = "completed")
       => /\ store' = store
          /\ \E m \in lastSent' : m.to = lastOp'.conn /\ m.type = "error"]_vars

\* an accepted submitSegment step from the last member of room r that had not
\* submitted, for a segment that is not the final one
LastSubmit(r) ==
    /\ AcceptedSubmit(r)
    /\ Members(store[r]) \subseteq Submitted(store[r]) \cup {lastOp'.player}
    /\ store[r].currentSegmentIndex + 1 < TOTAL_SEGMENTS

\* the room r as the advance leaves it: next segment, nothing submitted, the
\* canvas slots of the members exchanged
SegmentAdvanced(r) ==
    /\ store'[r].status = "playing"
    /\ store'[r].currentSegmentIndex = store[r].currentSegmentIndex + 1
    /\ store'[r].submittedPlayers = <<>>
    /\ DOMAIN store'[r].canvasAssignments = Members(store[r])
    /\ \A q \in Members(store[r]) :
        /\ q \in DOMAIN store[r].canvasAssignments
        /\ store'[r].canvasAssignments[q] = 1 - store[r].canvasAssignments[q]
    /\ store'[r].players = store[r].players

\* C12 as stated: when the last outstanding member submits a segment that is not
\* the final one the room advances by one segment, submittedPlayers is emptied,
\* the canvas slots are swapped and both members are sent canDraw = true.
C12_AdvanceBothMembersSent ==
    [][\A r \in RoomIds :
        LastSubmit(r) =>
            /\ SegmentAdvanced(r)
            /\ \A p \in Members(store'[r]) :
                \E m \in lastSent' : conns'[m.to].playerId = p /\ m.canDraw]_vars

\* C12 amended: when the last outstanding member submits a segment that is not
\* the final one the room advances by one segment, submittedPlayers is emptied,
\* the canvas slots are swapped and every open connection bound to the room is
\* sent a gameUpdate message with canDraw = true.
C12_AdvanceOpenConnectionsSent ==
    [][\A r \in RoomIds :
        LastSubmit(r) =>
            /\ SegmentAdvanced(r)
            /\ \A o \in OpenIn(conns', r) :
                \E m \in lastSent' :
                    /\ m.to = o /\ m.type = "gameUpdate" /\ m.canDraw
                    /\ m.currentSegmentIndex = store'[r].currentSegmentIndex]_vars

\* a submitSegment has just advanced a room past segment 0 and both members,
\* their canvases exchanged, were told to draw
C12_Witness ==
    /\ lastOp.type = "submitSegment"
    /\ lastOp.room \in DOMAIN store
    /\ store[lastOp.room].status = "playing"
    /\ store[lastOp.room].currentSegmentIndex = 2
    /\ store[lastOp.room].submittedPlayers = <<>>
    /\ Len(store[lastOp.room].players) = 2
    /\ store[lastOp.room].canvasAssignments[store[lastOp.room].players[1]] = 0
    /\ Cardinality({m \in lastSent : m.type = "gameUpdate" /\ m.canDraw}) = 2

\* C15: while a room stays playing or completed its currentSegmentIndex never
\* decreases.
C15_SegmentIndexNeverDecreases ==
    [][\A r \in RoomIds :
        (/\ r \in DOMAIN store /\ r \in DOMAIN store'
         /\ store[r].status \in {"playing", "completed"}
         /\ store'[r].status \in {"playing", "completed"})
        => store'[r].currentSegmentIndex >= store[r].currentSegmentIndex]_vars

\* the status changes a room may make in one step
AllowedStatusChange(old, new) ==
    \/ new.status = old.status
    \/ old.status = "waiting" /\ new.status = "playing" /\ Len(new.players) = MAX_PLAYERS
    \/ old.status = "playing" /\ new.status = "completed"
        /\ old.currentSegmentIndex = TOTAL_SEGMENTS - 1
    \/ old.status = "playing" /\ new.status = "waiting"
        /\ Len(new.players) < Len(old.players)

\* C16: the status of a room changes only from waiting to playing when membership
\* reaches 2, from playing to completed on the last segment and from playing to
\* waiting when a player is removed; nothing leaves completed.
C16_StatusTransitions ==
    [][\A r \in RoomIds :
        (r \in DOMAIN store /\ r \in DOMAIN store')
        => AllowedStatusChange(store[r], store'[r])]_vars

\* the fields of a room that hold the progress and the outcome of its game
GameState(room) ==
    <<room.currentSegmentIndex, room.submittedPlayers, room.canvasAssignments,
      room.activeCanvasStates, room.segmentHistory, room.finalArtworks>>

\* C17: no client message changes currentSegmentIndex, submittedPlayers,
\* canvasAssignments, the active canvases, segmentHistory or finalArtworks of a
\* completed room.
C17_CompletedRoomFrozen ==
    [][\A r \in RoomIds :
        (/\ r \in DOMAIN store /\ r \in DOMAIN store'
         /\ store[r].status = "completed"
         /\ lastOp'.type \in {"createGame", "joinGame", "reconnectGame",
                              "submitSegment", "playAgain"})
        => GameState(store'[r]) = GameState(store[r])]_vars

\* the socket of member lastOp'.player of room r, waiting or playing, closes
MemberCloses(r) ==
    /\ lastOp'.type = "close" /\ lastOp'.room = r
    /\ r \in DOMAIN store
    /\ store[r].status \in {"waiting", "playing"}
    /\ lastOp'.player \in Members(store[r])

\* C18: the close of a member's socket in a waiting or playing room marks the
\* player disconnected, adds 1 to reconnectAttempts and starts a grace timer;
\* players, status, currentSegmentIndex, submittedPlayers, canvasAssignments, the
\* active canvases, segmentHistory and the other player records stay as they were.
C18_CloseOnlyMarksDisconnected ==
    [][\A r \in RoomIds :
        MemberCloses(r) =>
            LET p == lastOp'.player
                i == FindPlayer(store[r].playerObjects, p)
            IN /\ r \in DOMAIN store'
               /\ i # 0
               /\ Len(store'[r].playerObjects) = Len(store[r].playerObjects)
               /\ store'[r].playerObjects[i].isDisconnected
               /\ store'[r].playerObjects[i].reconnectAttempts =
                        store[r].playerObjects[i].reconnectAttempts + 1
               /\ \A j \in (1..Len(store[r].playerObjects)) \ {i} :
                        store'[r].playerObjects[j] = store[r].playerObjects[j]
               /\ <<r, p>> \in timers'
               /\ store'[r].players = store[r].players
               /\ store'[r].status = store[r].status
               /\ GameState(store'[r]) = GameState(store[r])]_vars

\* a member of a playing room that had submitted has just lost its socket: it is
\* marked disconnected after one attempt, its timer runs, the submission is kept
C18_Witness ==
    /\ lastOp.type = "close"
    /\ lastOp.room \in DOMAIN store
    /\ store[lastOp.room].status = "playing"
    /\ lastOp.player \in Submitted(store[lastOp.room])
    /\ <<lastOp.room, lastOp.player>> \in timers
    /\ \E i \in 1..Len(store[lastOp.room].playerObjects) :
        /\ store[lastOp.room].playerObjects[i].id = lastOp.player
        /\ store[lastOp.room].playerObjects[i].isDisconnected
        /\ store[lastOp.room].playerObjects[i].reconnectAttempts = 1

\* a reconnectGame step that presents player lastOp'.player of room r while the
\* player is marked disconnected and the grace timer has not fired
ReconnectInGrace(r) ==
    /\ lastOp'.type = "reconnectGame" /\ lastOp'.room = r
    /\ r \in DOMAIN store
    /\ FindPlayerDisconnected(store[r].playerObjects, lastOp'.player) # 0
    /\ <<r, lastOp'.player>> \in timers

\* C19: a reconnectGame that presents a disconnected player of the room before
\* the grace timer fires cancels the timer, marks the player connected with
\* reconnectAttempts = 0, binds the connection to the player and leaves the
\* membership as it was.
C19_ReconnectRestoresPlayer ==
    [][\A r \in RoomIds :
        ReconnectInGrace(r) =>
            LET p == lastOp'.player
                i == FindPlayer(store[r].playerObjects, p)
            IN /\ <<r, p>> \notin timers'
               /\ ~store'[r].playerObjects[i].isDisconnected
               /\ store'[r].playerObjects[i].reconnectAttempts = 0
               /\ conns'[lastOp'.conn].gameRoomId = r
               /\ conns'[lastOp'.conn].playerId = p
               /\ store'[r].players = store[r].players
               /\ Len(store'[r].playerObjects) = Len(store[r].playerObjects)]_vars

\* what the room has recorded of the submissions
Recorded(room) == <<room.submittedPlayers, room.activeCanvasStates, room.segmentHistory>>

\* C20: when the updateOne of a reconnectGame handler for a player of a playing
\* room takes effect, the stored submittedPlayers, active canvases and
\* segmentHistory are what they were just before, whatever other handlers
\* recorded since the reconnectGame handler read the room.
C20_ReconnectLosesNoSubmission ==
    [][\A c \in ConnIds :
        (/\ pc[c] = "reconnecting" /\ pc'[c] = "idle"
         /\ local[c].roomId \in DOMAIN store
         /\ local[c].gameRoom.status = "playing")
        => Recorded(store'[local[c].roomId]) = Recorded(store[local[c].roomId])]_vars

\* ------------------------------------------------------------------ C21
\* a member of a waiting or playing room whose player record is marked disconnected
AwaitingReconnect(r, p) ==
    /\ r \in DOMAIN store
    /\ store[r].status \in {"waiting", "playing"}
    /\ Includes(store[r].players, p)
    /\ FindPlayerDisconnected(store[r].playerObjects, p) # 0

\* C21: a player who disconnects from a waiting or playing room and never
\* reconnects is, the grace timers firing, eventually no longer in players:
\* every state in which a member is marked disconnected leads to one in which
\* the player has reconnected or is no longer a member of the room
C21_DisconnectedPlayerEventuallyRemoved ==
    \A r \in RoomIds, p \in ConnIds :
        AwaitingReconnect(r, p) ~> ~AwaitingReconnect(r, p)

\* ------------------------------------------------------------------ C22
\* the grace timer of player p of room r fires while the stored record of p is
\* marked disconnected with reconnectAttempts >= MAX_RECONNECT_ATTEMPTS
TimerRemoves(r, p) ==
    /\ TimerFire(r, p)
    /\ r \in DOMAIN store
    /\ \E i \in 1..Len(store[r].playerObjects) :
        /\ store[r].playerObjects[i].id = p
        /\ store[r].playerObjects[i].isDisconnected
        /\ store[r].playerObjects[i].reconnectAttempts >= MAX_RECONNECT_ATTEMPTS

\* room r after the removal of p: p gone from players and playerObjects, the
\* room waiting at segment 0 with no submissions, no canvas assignment and two
\* blank canvases
RevertedWithout(room, p) ==
    /\ p \notin Members(room)
    /\ \A i \in 1..Len(room.playerObjects) : room.playerObjects[i].id # p
    /\ room.status = "waiting"
    /\ room.currentSegmentIndex = 0
    /\ room.submittedPlayers = <<>>
    /\ room.canvasAssignments = EmptyMap
    /\ \A k \in DOMAIN room.activeCanvasStates : room.activeCanvasStates[k] = Blank

CompletedMemberCloses(r) ==
    /\ lastOp'.type = "close" /\ lastOp'.room = r
    /\ r \in DOMAIN store
    /\ store[r].status = "completed"
    /\ lastOp'.player \in Members(store[r])

\* C23: when a member's socket closes in a completed room, the room is deleted
\* if no connection bound to it remains open (the last connected member left);
\* otherwise the room stays, the closing player's record is marked disconnected
\* and every other field and every other player record is as it was.
C23_CompletedRoomDeletedWhenAllLeft ==
    [][\A r \in RoomIds :
        CompletedMemberCloses(r) =>
            LET p == lastOp'.player
                i == FindPlayer(store[r].playerObjects, p)
            IN IF OpenIn(conns', r) = {}
               THEN r \notin DOMAIN store'
               ELSE /\ r \in DOMAIN store'
                    /\ store'[r] = [store[r] EXCEPT !.playerObjects = store'[r].playerObjects]
                    /\ Len(store'[r].playerObjects) = Len(store[r].playerObjects)
                    /\ store'[r].playerObjects[i].id = p
                    /\ store'[r].playerObjects[i].isDisconnected
                    /\ \A j \in (1..Len(store[r].playerObjects)) \ {i} :
                            store'[r].playerObjects[j] = store[r].playerObjects[j]]_vars

\* the last open socket of a room has just closed and the room, whose game had
\* been played to the end, is gone from the store
C23_Witness ==
    /\ lastOp.type = "close"
    /\ lastOp.room \in RoomIds
    /\ lastOp.room \notin DOMAIN store
    /\ Cardinality({c \in ConnIds : conns[c].gameRoomId = lastOp.room}) >= MAX_PLAYERS
    /\ \A c \in ConnIds : conns[c].gameRoomId = lastOp.room => conns[c].state = "closed"

\* ------------------------------------------------------------------ C24
\* the gameJoined and reconnected messages, which carry the receiver's view
ViewsSent == {m \in lastSent : m.type \in {"gameJoined", "reconnected"}}

\* C24: every view sent to a connection attached to a room has
\* canDraw = (status is playing and the player is not in submittedPlayers) and
\* isWaitingForOthers = (status is playing and the player is in submittedPlayers).
C24_ViewFlagsFollowStatus ==
    \A m \in ViewsSent :
        LET r == conns[m.to].gameRoomId
            p == conns[m.to].playerId
        IN r \in DOMAIN store =>
            /\ m.canDraw = (store[r].status = "playing" /\ p \notin Submitted(store[r]))
            /\ m.isWaitingForOthers =
                    (store[r].status = "playing" /\ p \in Submitted(store[r]))

\* ------------------------------------------------------------------ C25
\* an accepted submitSegment from a member of room r while another member has
\* not submitted for the segment
SubmitBeforeOthers(r) ==
    /\ AcceptedSubmit(r)
    /\ Members(store[r]) \ (Submitted(store[r]) \cup {lastOp'.player}) # {}

\* C25: when a member submits and the other member has not yet submitted, the
\* submission is stored, the submitter is sent a view with canDraw = false and
\* isWaitingForOthers = true, and every other open connection of the room is
\* sent a view with canDraw = true.
C25_SubmitBroadcastsWaitingView ==
    [][\A r \in RoomIds :
        SubmitBeforeOthers(r) =>
            /\ lastOp'.player \in Submitted(store'[r])
            /\ \E m \in lastSent' :
                /\ m.to = lastOp'.conn
                /\ ~m.canDraw
                /\ m.isWaitingForOthers
            /\ \A o \in OpenIn(conns, r) \ {lastOp'.conn} :
                \E m \in lastSent' : m.to = o /\ m.canDraw]_vars

\* ------------------------------------------------------------------ C26
\* C26: a request for the current state changes neither the store nor the
\* connections nor the timers, and when the room exists the requester is sent a
\* view with the room's currentSegmentIndex and playerCount and with the drawing
\* flags that follow from status and submittedPlayers.
C26_RequestStateChangesNothing ==
    [][lastOp'.type = "requestInitialState" =>
        /\ store' = store
        /\ conns' = conns
        /\ timers' = timers
        /\ lastOp'.room \in DOMAIN store =>
            LET room == store[lastOp'.room]
                p == lastOp'.player
            IN \E m \in lastSent' :
                /\ m.to = lastOp'.conn
                /\ m.currentSegmentIndex = room.currentSegmentIndex
                /\ m.playerCount = room.playerCount
                /\ m.canDraw = (room.status = "playing" /\ p \notin Submitted(room))
                /\ m.isWaitingForOthers = (room.status = "playing" /\ p \in Submitted(room))]_vars

\* a member that has submitted for the current segment has just asked for its
\* view and was told to wait for the others
C26_Witness ==
    /\ lastOp.type = "requestInitialState"
    /\ lastOp.room \in DOMAIN store
    /\ store[lastOp.room].status = "playing"
    /\ store[lastOp.room].currentSegmentIndex > 0
    /\ lastOp.player \in Submitted(store[lastOp.room])
    /\ \E m \in lastSent :
        m.to = lastOp.conn /\ m.type = "playerJoined" /\ m.isWaitingForOthers /\ ~m.canDraw

\* ------------------------------------------------------------------ C27
\* a joinGame message whose gameCode matches no room
JoinUnknownCode == lastOp'.type = "joinGame" /\ lastOp'.room = NoRoom

UnknownRoomOrPlayer ==
    \/ JoinUnknownCode
    \/ /\ lastOp'.type = "reconnectGame"
       /\ \/ lastOp'.room = NoRoom
          \/ /\ lastOp'.room \in DOMAIN store
             /\ FindPlayer(store[lastOp'.room].playerObjects, lastOp'.player) = 0

\* C28: a message that names an unknown room or an unknown player changes no
\* room and is answered with an error message to its sender.
C28_UnknownTargetAnsweredWithError ==
    [][UnknownRoomOrPlayer =>
        /\ store' = store
        /\ \E m \in lastSent' :
            /\ m.to = lastOp'.conn
            /\ m.type \in {"error", "reconnectFailed"}]_vars

\* ------------------------------------------------------------------ C29
\* a clearCanvas message from a connection bound to the stored room r
ClearsRoom(r) == lastOp'.type = "clearCanvas" /\ lastOp'.room = r /\ r \in DOMAIN store

\* the first submitSegment handled after a clearCanvas, from a member of the
\* playing room r
SubmitsAfterClear(r) ==
    /\ lastOp.type = "clearCanvas" /\ lastOp.room = r
    /\ lastOp'.type = "submitSegment" /\ lastOp'.room = r
    /\ r \in DOMAIN store
    /\ store[r].status = "playing"
    /\ lastOp'.player \in Members(store[r])

CompletesSegment(c) ==
    LET r == conns[c].gameRoomId
    IN /\ r \in DOMAIN store
       /\ ~Includes(store[r].submittedPlayers, conns[c].playerId)
       /\ Len(store[r].submittedPlayers) + 1 = store[r].playerCount

\* C30: when a Compositor call fails during an advance, the advance still
\* completes: currentSegmentIndex and status are updated and stored, every open
\* connection of the room is sent segmentAdvanced or gameOver, a blank image
\* stands in for the result of the failed call, and no error message is sent.
C30_CompositorFailureNeverBlocks ==
    [][\A c \in ConnIds, data \in Images, overlayFails \in BOOLEAN, combineFails \in BOOLEAN :
        (/\ SubmitComposed(c, data, overlayFails, combineFails)
         /\ CompletesSegment(c)
         /\ overlayFails \/ combineFails)
        => LET r == conns[c].gameRoomId
               k == store[r].currentSegmentIndex
               final == k + 1 >= TOTAL_SEGMENTS
           IN /\ store'[r].currentSegmentIndex = k + 1
              /\ store'[r].status = IF final THEN "completed" ELSE "playing"
              /\ \A o \in OpenIn(conns, r) :
                    \E m \in lastSent' :
                        /\ m.to = o
                        /\ m.type = IF final THEN "gameOver" ELSE "segmentAdvanced"
                        /\ combineFails => m.canvasData = Blank
              /\ \A m \in lastSent' : m.type # "error"
              /\ overlayFails => store'[r].segmentHistory[k][NoPlayer] = Blank
              /\ (combineFails /\ final) => store'[r].finalArtworks = <<Blank>>]_vars

\* ------------------------------------------------------------------ C31
\* C31: no two rooms in the store ever have the same game code, also when two
\* createGame handlers run concurrently, each having found its code free.
C31_RoomCodesUnique ==
    \A r1, r2 \in DOMAIN store :
        store[r1].gameCode = store[r2].gameCode => r1 = r2

\* ------------------------------------------------------------------ C32
\* some connection other than the player's first was bound to player p of room r:
\* a reconnectGame for p has succeeded
HasReconnected(r, p) ==
    \E c \in ConnIds : c # p /\ conns[c].gameRoomId = r /\ conns[c].playerId = p

\* C32: once a player has reconnected, a grace timer of that player that fires
\* changes nothing in the store and sends nothing, whether the player is still
\* connected or has disconnected again, and whether or not the reconnect stopped
\* the timer; a reconnectGame handled while no timer of the player is pending
\* (it was cancelled or has fired) leaves the timers as they were.
C32_TimerAfterReconnectChangesNothing ==
    [][/\ \A r \in RoomIds, p \in ConnIds :
            (TimerFire(r, p) /\ HasReconnected(r, p))
            => (store' = store /\ conns' = conns /\ lastSent' = {})
       /\ (/\ lastOp'.type = "reconnectGame"
           /\ <<lastOp'.room, lastOp'.player>> \notin timers)
          => timers' = timers]_vars

\* a grace timer has just fired for a player who had reconnected and whose second
\* connection has closed since: the player is still a member, marked disconnected
C32_Witness ==
    /\ lastOp.type = "timer"
    /\ lastOp.room \in DOMAIN store
    /\ lastOp.player \in Members(store[lastOp.room])
    /\ FindPlayerDisconnected(store[lastOp.room].playerObjects, lastOp.player) # 0
    /\ \E c \in ConnIds :
        /\ c # lastOp.player
        /\ conns[c].state = "closed"
        /\ conns[c].gameRoomId = lastOp.room
        /\ conns[c].playerId = lastOp.player
    /\ lastSent = {}

\* ------------------------------------------------------------------ C33
\* C33: when a store call fails during a submitSegment, no write of the handler
\* takes effect (the room is as it was before the message) and the sender is
\* sent an error for the message.
C33_StoreFailureAtomicAndRejected ==
    [][\A c \in ConnIds, data \in Images, failAt \in StoreCalls :
        SubmitStoreFails(c, data, failAt)
        => /\ store' = store
           /\ \E m \in lastSent' : m.to = c /\ m.type = "error"]_vars

\* ------------------------------------------------------------------ C34
\* the step handles a message of the given type during whose broadcast the send
\* to one socket fails
SendFailedIn(type) == lastOp'.type = type /\ "failed" \in DOMAIN lastOp'

ViewTypes == {"gameJoined", "reconnected", "gameUpdate", "gameReset"}

\* the room from whose stored state the handler computed the views it sent
ViewedRoom(op) == op.room

\* C35: the view flags depend on the room snapshot and the playerId only: when a
\* handler sends a player a view of a room whose stored state is exactly the one
\* from which the previous handler sent the same player a view, canDraw and
\* isWaitingForOthers are the same in both messages, whichever of the join
\* broadcast, the submit broadcast, the reconnect reply and the play-again
\* broadcast each of them is.
C35_ViewDependsOnSnapshotOnly ==
    [][\A m \in lastSent, n \in lastSent' :
        (/\ m.type \in ViewTypes /\ n.type \in ViewTypes
         /\ ViewedRoom(lastOp) = ViewedRoom(lastOp')
         /\ ViewedRoom(lastOp) \in DOMAIN store
         /\ store' = store
         /\ conns[m.to].playerId = conns'[n.to].playerId)
        => /\ n.canDraw = m.canDraw
           /\ n.isWaitingForOthers = m.isWaitingForOthers]_vars

\* ------------------------------------------------------------------ C36
\* the canvas slot of the i-th joiner while the room is at segment k
SlotAt(i, k) == IF i = 1 THEN k % 2 ELSE 1 - (k % 2)

\* a submitSegment step from member lastOp'.player of the playing room r
MemberSubmits(r) ==
    /\ lastOp'.type = "submitSegment" /\ lastOp'.room = r
    /\ r \in DOMAIN store
    /\ store[r].status = "playing"
    /\ lastOp'.player \in Members(store[r])

\* p is the first or the second joiner of the room
FirstTwo(room, p) == \E i \in 1..MAX_PLAYERS : i <= Len(room.players) /\ room.players[i] = p

\* C36: in a two-player game without removal or reset, while the room is playing
\* at segment k the first joiner is on canvas k mod 2 and the second joiner on
\* canvas 1 - (k mod 2), and a submission at segment k is written to that canvas,
\* so the canvases are written by alternating players.
C36_SwapFollowsSegmentIndex ==
    [][\A r \in RoomIds :
        /\ (r \in DOMAIN store' /\ store'[r].status = "playing") =>
                /\ Len(store'[r].players) >= MAX_PLAYERS
                /\ \A i \in 1..MAX_PLAYERS :
                    store'[r].canvasAssignments[store'[r].players[i]] =
                        SlotAt(i, store'[r].currentSegmentIndex)
        /\ (MemberSubmits(r) /\ FirstTwo(store[r], lastOp'.player)) =>
                LET k == store[r].currentSegmentIndex
                    i == FindPlayer(store[r].playerObjects, lastOp'.player)
                IN /\ store'[r].activeCanvasStates[SlotAt(i, k)] = lastOp'.data
                   /\ store'[r].activeCanvasStates[1 - SlotAt(i, k)] =
                        store[r].activeCanvasStates[1 - SlotAt(i, k)]]_vars

\* after two advances the room is playing at segment 2 with the assignment it
\* started with, and the canvas of the first joiner now holds what the second
\* joiner drew on it at segment 1
C36_Witness ==
    \E r \in DOMAIN store :
        /\ store[r].status = "playing"
        /\ store[r].currentSegmentIndex = 2
        /\ Len(store[r].players) = MAX_PLAYERS
        /\ store[r].canvasAssignments[store[r].players[1]] = 0
        /\ store[r].canvasAssignments[store[r].players[2]] = 1
        /\ RecordedAt(store[r], 1) = Members(store[r])
        /\ store[r].segmentHistory[1][store[r].players[2]] = 2
        /\ store[r].segmentHistory[1][store[r].players[1]] = 1
        /\ store[r].activeCanvasStates[0] = 2
        /\ store[r].activeCanvasStates[1] = 1

\* ------------------------------------------------------------------ C37
\* every segment of the room has the drawings of both members
AllRoundsPlayed(room) ==
    \A k \in 0..(TOTAL_SEGMENTS - 1) : RecordedAt(room, k) = Members(room)

\* C37: a room whose two members stay connected and each submit once for every
\* segment goes from playing to completed, every one of the TOTAL_SEGMENTS rounds
\* played by both; currentSegmentIndex changes only by going up by one, from 0
\* to TOTAL_SEGMENTS - 1, and the room completes at the last index.
C37_GameRunsToCompletion ==
    /\ \A r \in RoomIds :
        (r \in DOMAIN store /\ store[r].status = "playing")
        ~> (/\ r \in DOMAIN store
            /\ store[r].status = "completed"
            /\ AllRoundsPlayed(store[r]))
    /\ [][\A r \in RoomIds :
            (r \in DOMAIN store /\ r \in DOMAIN store') =>
                /\ store'[r].currentSegmentIndex \in
                        {store[r].currentSegmentIndex, store[r].currentSegmentIndex + 1}
                /\ store'[r].currentSegmentIndex < TOTAL_SEGMENTS
                /\ (store'[r].status = "completed" /\ store[r].status # "completed")
                        => store[r].currentSegmentIndex = TOTAL_SEGMENTS - 1
                /\ store'[r].currentSegmentIndex # store[r].currentSegmentIndex
                        => /\ store'[r].status = "playing"
                           /\ RecordedAt(store'[r], store[r].currentSegmentIndex)
                                    = Members(store[r])]_vars

\* a room is completed after four rounds, each with the drawings of both of its
\* two members, the last submission having been handled just now
C37_Witness ==
    /\ lastOp.type = "submitSegment"
    /\ lastOp.seg = TOTAL_SEGMENTS - 1
    /\ lastOp.room \in DOMAIN store
    /\ store[lastOp.room].status = "completed"
    /\ Len(store[lastOp.room].players) = MAX_PLAYERS
    /\ AllRoundsPlayed(store[lastOp.room])
    /\ DOMAIN store[lastOp.room].segmentHistory = 0..(TOTAL_SEGMENTS - 1)

\* ------------------------------------------------------------------ C38
\* the open connections bound to player p of room r
BoundTo(r, p) ==
    {c \in ConnIds : conns[c].state = "open" /\ conns[c].gameRoomId = r /\ conns[c].playerId = p}

\* C38: at any time at most one open connection is bound to a given room and
\* playerId, for any interleaving of reconnectGame handlers and connection closes.
C38_OneOpenConnectionPerPlayer ==
    \A r \in RoomIds, p \in ConnIds : Cardinality(BoundTo(r, p)) <= 1

\* ------------------------------------------------------------------ C39
\* no handler is between two of its store calls
Quiescent == \A c \in ConnIds : pc[c] = "idle"

\* C39: once the handlers in flight have finished, every open connection bound
\* to a room carries a playerId that is in the stored players of that room,
\* whatever the interleaving of createGame, joinGame, closes and timers was.
C39_BoundConnectionsAreMembers ==
    Quiescent =>
        \A c \in ConnIds :
            (conns[c].state = "open" /\ conns[c].gameRoomId # NoRoom)
            => /\ conns[c].gameRoomId \in DOMAIN store
               /\ conns[c].playerId \in Members(store[conns[c].gameRoomId])
====
